---- MODULE Spec2Model ----
(***************************************************************************)
(* The in-memory book catalog of library-service                           *)
(* (src/services/bookService.ts): the module-level array `books` and the   *)
(* operations addBook, updateBook, deleteBook, borrowBook, returnBook,     *)
(* together with the earlier returnBook(id) of the second service file.    *)
(*                                                                         *)
(* Conventions.                                                            *)
(*  - An optional property (borrowerId?, dueDate?, a key of Partial<Book>) *)
(*    is a set: {} when the property is absent, {v} when it holds v.       *)
(*  - An id is the natural number whose decimal string the code stores.    *)
(*  - Time is counted in ticks, TicksPerDay of them to the day             *)
(*    (24 * 60 * 60 * 1000 ms in the code).                                *)
(***************************************************************************)
EXTENDS Integers, Sequences, FiniteSets

VARIABLES
    books,   \* the module-level array `books`
    now,     \* the clock Date.now() / new Date() reads
    last,    \* the last call: its arguments and what it threw or returned
    prev,    \* the catalog as it was when the last call began
    steps    \* calls and clock advances so far

vars == <<books, now, last, prev, steps>>

----------------------------------------------------------------------------
(* Bounds of the model *)

\* Number of calls (and clock advances) in a behaviour.
MaxSteps == 3

\* Math.random() * 10000 is drawn from [0, RandomScale) instead of [0, 10000).
RandomScale == 2

\* Clock ticks per day.
TicksPerDay == 2

----------------------------------------------------------------------------
(* Program constants *)

LoanDays == 14

GraceDays == 14

PenaltyPerDay == 2

----------------------------------------------------------------------------
(* Values *)

Max(a, b) == IF a >= b THEN a ELSE b

Borrowers == {"user456", "user789"}

\* Error messages thrown by the service, by kind.
MissingFields == "Missing required fields"
NotFound == "not found"
AlreadyBorrowed == "is already borrowed"
NotBorrowed == "is not currently borrowed"
WrongBorrower == "was not borrowed by this user"
NoError == "ok"

\* !x of JavaScript for an optional string: undefined and "" are falsy.
Falsy(f) == f = {} \/ f = {""}

Val(f) == CHOOSE v \in f : TRUE

\* Date#toISOString, as far as the service reads it back: the calendar part
\* (whole days) and the time-of-day part.
ToISOString(t) == <<t \div TicksPerDay, t % TicksPerDay>>

\* new Date(isoString).getTime()
GetTime(s) == s[1] * TicksPerDay + s[2]

\* Math.ceil(a / b) for b > 0
Ceil(a, b) == -((-a) \div b)

\* Number#toFixed(0) of a non-negative number given in halves: rounds to the
\* nearest integer, a tie upwards.
ToFixed0(halves) == (halves + 1) \div 2

\* Math.random() * 10000, in halves: [0, RandomScale)
RandomDraws == 0 .. (2 * RandomScale - 1)

SeedBooks ==
    << [id |-> 1, title |-> "The Great Gatsby", author |-> "F. Scott Fitzgerald",
        genre |-> "Fiction", isBorrowed |-> FALSE, borrowerId |-> {}, dueDate |-> {}],
       [id |-> 2, title |-> "1984", author |-> "George Orwell",
        genre |-> "Dystopian", isBorrowed |-> FALSE, borrowerId |-> {}, dueDate |-> {}],
       [id |-> 3, title |-> "To Kill a Mockingbird", author |-> "Harper Lee",
        genre |-> "Classic", isBorrowed |-> FALSE, borrowerId |-> {}, dueDate |-> {}] >>

\* The ids the callers pass: every id a record can have, one of which
\* (at least) is absent from the catalog at any time before the first add.
ArgIds == 0 .. Max(3, RandomScale)

\* bookData of addBook: each required field missing, empty or given.
BookDatas ==
    [title : {{}, {""}, {"Dune"}}, author : {{}, {""}, {"Frank Herbert"}},
     genre : {{}, {""}, {"SciFi"}}]

NoPatch ==
    [id |-> {}, title |-> {}, author |-> {}, genre |-> {},
     isBorrowed |-> {}, borrowerId |-> {}, dueDate |-> {}]

\* bookData of updateBook (Partial<Book>): nothing or the documented
\* {title, genre} pair, combined with attempts on the protected fields.
Patches ==
    { [NoPatch EXCEPT !.title = c[1], !.genre = c[2], !.id = p[1],
                      !.isBorrowed = p[2], !.borrowerId = p[3], !.dueDate = p[4]] :
        c \in { <<{}, {}>>, <<{"New Title"}, {"New Genre"}>> },
        p \in { <<{}, {}, {}, {}>>,
                <<{9}, {}, {}, {}>>,
                <<{}, {TRUE}, {"user789"}, {ToISOString(0)}>>,
                <<{}, {FALSE}, {}, {}>>,
                <<{9}, {TRUE}, {"user789"}, {ToISOString(0)}>> } }

\* The clock advances between calls by 13.5, 16 or 29.5 days.
Jumps == { LoanDays * TicksPerDay - 1, (LoanDays + 2) * TicksPerDay,
           (2 * LoanDays + 2) * TicksPerDay - 1 }

----------------------------------------------------------------------------
(* Helpers of the operations *)

\* books.findIndex((b) => b.id === id), 1-based; 0 when there is none
\* (books.find returns the record at that index).
FindIndex(bs, id) ==
    IF \E i \in 1 .. Len(bs) : bs[i].id = id
    THEN CHOOSE i \in 1 .. Len(bs) :
            bs[i].id = id /\ \A j \in 1 .. (i - 1) : bs[j].id # id
    ELSE 0

\* books.splice(index, 1)
Splice(bs, index) ==
    [i \in 1 .. (Len(bs) - 1) |-> IF i < index THEN bs[i] ELSE bs[i + 1]]

\* getAllBooks()
GetAllBooks == books

\* Mutant: only a missing field is refused, an empty string passes.
MissingRequiredUndefinedOnly(bookData) ==
    bookData.title = {} \/ bookData.author = {} \/ bookData.genre = {}

\* !bookData.title || !bookData.author || !bookData.genre
MissingRequired(bookData) ==
    Falsy(bookData.title) \/ Falsy(bookData.author) \/ Falsy(bookData.genre)

\* The record addBook builds.
NewBook(bookData, draw) ==
    [id |-> ToFixed0(draw), title |-> Val(bookData.title),
     author |-> Val(bookData.author), genre |-> Val(bookData.genre),
     isBorrowed |-> FALSE, borrowerId |-> {}, dueDate |-> {}]

\* Mutant: `delete safeUpdate.isBorrowed` is missing.
SafeUpdateKeepsIsBorrowed(bookData) ==
    [bookData EXCEPT !.id = {}, !.borrowerId = {}, !.dueDate = {}]

\* safeUpdate of updateBook: the patch with the protected keys deleted.
SafeUpdate(bookData) ==
    [bookData EXCEPT !.id = {}, !.isBorrowed = {}, !.borrowerId = {}, !.dueDate = {}]

\* Object.assign(book, patch): every key the patch has overwrites the book's.
\* The optional properties of the book stay optional.
Assign(book, patch) ==
    [id |-> IF patch.id = {} THEN book.id ELSE Val(patch.id),
     title |-> IF patch.title = {} THEN book.title ELSE Val(patch.title),
     author |-> IF patch.author = {} THEN book.author ELSE Val(patch.author),
     genre |-> IF patch.genre = {} THEN book.genre ELSE Val(patch.genre),
     isBorrowed |-> IF patch.isBorrowed = {} THEN book.isBorrowed
                    ELSE Val(patch.isBorrowed),
     borrowerId |-> IF patch.borrowerId = {} THEN book.borrowerId
                    ELSE patch.borrowerId,
     dueDate |-> IF patch.dueDate = {} THEN book.dueDate ELSE patch.dueDate]

\* Mutant: `book.borrowerId = borrowerId` is missing.
BorrowedNoBorrowerId(book, borrowerId, t) ==
    [book EXCEPT !.isBorrowed = TRUE,
                 !.dueDate = {ToISOString(t + LoanDays * TicksPerDay)}]

\* The assignments of borrowBook at time t.
Borrowed(book, borrowerId, t) ==
    [book EXCEPT !.isBorrowed = TRUE, !.borrowerId = {borrowerId},
                 !.dueDate = {ToISOString(t + LoanDays * TicksPerDay)}]

\* daysLate of returnBook at time t for a book due at dueDate.
DaysLate(dueDate, t) == Ceil(t - GetTime(dueDate), TicksPerDay)

\* Mutant: the days of grace are not subtracted.
PenaltyOnAllDaysLate(daysLate) ==
    IF daysLate > 0
    THEN IF daysLate > GraceDays THEN daysLate * PenaltyPerDay ELSE 0
    ELSE 0

\* penalty of returnBook.
Penalty(daysLate) ==
    IF daysLate > 0
    THEN IF daysLate > GraceDays THEN (daysLate - GraceDays) * PenaltyPerDay ELSE 0
    ELSE 0

\* Mutant: `delete book.borrowerId` is missing.
ReturnedKeepsBorrowerId(book) ==
    [book EXCEPT !.isBorrowed = FALSE, !.dueDate = {}]

\* The reset of the borrowing fields in returnBook.
Returned(book) ==
    [book EXCEPT !.isBorrowed = FALSE, !.borrowerId = {}, !.dueDate = {}]

\* What a call leaves behind for its caller: the call, its arguments, the
\* error thrown (NoError when none), and the value returned.
Outcome(op, id, who, arg, err, book, penalty, deleted) ==
    [op |-> op, id |-> id, who |-> who, arg |-> arg, err |-> err,
     book |-> book, penalty |-> penalty, deleted |-> deleted]

----------------------------------------------------------------------------
(* State *)

Init ==
    /\ books = SeedBooks
    /\ now = 0
    /\ steps = 0
    /\ prev = SeedBooks
    /\ last = Outcome("init", {}, {}, {}, NoError, {}, {}, {})

Step == steps < MaxSteps /\ steps' = steps + 1

\* A call of the service: the clock does not move while it runs.
Call == Step /\ prev' = books /\ UNCHANGED now

AddBook(bookData, draw) ==
    /\ Call
    /\ IF MissingRequired(bookData)
       THEN /\ UNCHANGED books
            /\ last' = Outcome("add", {}, {}, {bookData}, MissingFields, {}, {}, {})
       ELSE /\ books' = Append(books, NewBook(bookData, draw))
            /\ last' = Outcome("add", {}, {}, {bookData}, NoError,
                               {NewBook(bookData, draw)}, {}, {})

UpdateBook(id, bookData) ==
    /\ Call
    /\ LET i == FindIndex(books, id) IN
       IF i = 0
       THEN /\ UNCHANGED books
            /\ last' = Outcome("update", {id}, {}, {bookData}, NotFound, {}, {}, {})
       ELSE /\ books' = [books EXCEPT ![i] = Assign(books[i], SafeUpdate(bookData))]
            /\ last' = Outcome("update", {id}, {}, {bookData}, NoError,
                               {Assign(books[i], SafeUpdate(bookData))}, {}, {})

DeleteBook(id) ==
    /\ Call
    /\ LET index == FindIndex(books, id) IN
       IF index # 0
       THEN /\ books' = Splice(books, index)
            /\ last' = Outcome("delete", {id}, {}, {}, NoError, {}, {}, {TRUE})
       ELSE /\ UNCHANGED books
            /\ last' = Outcome("delete", {id}, {}, {}, NoError, {}, {}, {FALSE})

\* Mutant: the `if (book.isBorrowed)` check is missing.
BorrowBookUnchecked(id, borrowerId) ==
    /\ Call
    /\ LET i == FindIndex(books, id) IN
       IF i = 0
       THEN /\ UNCHANGED books
            /\ last' = Outcome("borrow", {id}, {borrowerId}, {}, NotFound, {}, {}, {})
       ELSE /\ books' = [books EXCEPT ![i] = Borrowed(books[i], borrowerId, now)]
            /\ last' = Outcome("borrow", {id}, {borrowerId}, {}, NoError,
                               {Borrowed(books[i], borrowerId, now)}, {}, {})

BorrowBook(id, borrowerId) ==
    /\ Call
    /\ LET i == FindIndex(books, id) IN
       IF i = 0
       THEN /\ UNCHANGED books
            /\ last' = Outcome("borrow", {id}, {borrowerId}, {}, NotFound, {}, {}, {})
       ELSE IF books[i].isBorrowed
       THEN /\ UNCHANGED books
            /\ last' = Outcome("borrow", {id}, {borrowerId}, {}, AlreadyBorrowed,
                               {}, {}, {})
       ELSE /\ books' = [books EXCEPT ![i] = Borrowed(books[i], borrowerId, now)]
            /\ last' = Outcome("borrow", {id}, {borrowerId}, {}, NoError,
                               {Borrowed(books[i], borrowerId, now)}, {}, {})

ReturnBook(id, borrowerId) ==
    /\ Call
    /\ LET i == FindIndex(books, id) IN
       IF i = 0
       THEN /\ UNCHANGED books
            /\ last' = Outcome("return", {id}, {borrowerId}, {}, NotFound, {}, {}, {})
       ELSE IF ~books[i].isBorrowed
       THEN /\ UNCHANGED books
            /\ last' = Outcome("return", {id}, {borrowerId}, {}, NotBorrowed, {}, {}, {})
       ELSE IF books[i].borrowerId # {borrowerId}
       THEN /\ UNCHANGED books
            /\ last' = Outcome("return", {id}, {borrowerId}, {}, WrongBorrower,
                               {}, {}, {})
       ELSE LET penalty == Penalty(DaysLate(Val(books[i].dueDate), now)) IN
            /\ books' = [books EXCEPT ![i] = Returned(books[i])]
            /\ last' = Outcome("return", {id}, {borrowerId}, {}, NoError,
                               {Returned(books[i])},
                               IF penalty > 0 THEN {penalty} ELSE {}, {})

\* Time passes between two calls (Date.now() and new Date() read the clock).
Advance(d) ==
    /\ Step
    /\ now' = now + d
    /\ UNCHANGED <<books, last, prev>>

\* returnBook(id) of the second service file: no borrowerId parameter and no
\* check of the borrower, no penalty.  `caller` is the user on whose behalf
\* the call is made; the function never sees it.
ReturnBookLegacy(id, caller) ==
    /\ Call
    /\ LET i == FindIndex(books, id) IN
       IF i = 0
       THEN /\ UNCHANGED books
            /\ last' = Outcome("return", {id}, {caller}, {}, NotFound, {}, {}, {})
       ELSE IF ~books[i].isBorrowed
       THEN /\ UNCHANGED books
            /\ last' = Outcome("return", {id}, {caller}, {}, NotBorrowed, {}, {}, {})
       ELSE /\ books' = [books EXCEPT ![i] = Returned(books[i])]
            /\ last' = Outcome("return", {id}, {caller}, {}, NoError,
                               {Returned(books[i])}, {}, {})

\* Math.random() is called only once the required fields are there.
DrawsFor(bookData) == IF MissingRequired(bookData) THEN {0} ELSE RandomDraws

\* The calls the two service files share, and the clock.
Shared ==
    \/ \E bookData \in BookDatas :
          \E draw \in DrawsFor(bookData) : AddBook(bookData, draw)
    \/ \E id \in ArgIds, bookData \in Patches : UpdateBook(id, bookData)
    \/ \E id \in ArgIds : DeleteBook(id)
    \/ \E id \in ArgIds, b \in Borrowers : BorrowBook(id, b)
    \/ \E d \in Jumps : Advance(d)

Next ==
    \/ Shared
    \/ \E id \in ArgIds, b \in Borrowers : ReturnBook(id, b)

\* src/services/bookService.ts
Spec == Init /\ [][Next]_vars

NextLegacy ==
    \/ Shared
    \/ \E id \in ArgIds, b \in Borrowers : ReturnBookLegacy(id, b)

\* The second service file, whose returnBook takes the id alone.
SpecLegacy == Init /\ [][NextLegacy]_vars

----------------------------------------------------------------------------
(* Properties *)

\* The step is a call of `op` (not a clock advance, not a stuttering step);
\* last' holds its arguments and its outcome, books the catalog before it.
Called(op) == steps' # steps /\ now' = now /\ last'.op = op

Threw(err) == last'.err = err /\ last'.book = {} /\ books' = books

HasId(bs, id) == \E j \in 1 .. Len(bs) : bs[j].id = id

\* C1: a successful add returns a book with isBorrowed = false whose id no
\* record of the catalog had before the call, and so no two records of the
\* catalog ever share an id.
C1_FreshUniqueIds ==
    [][ /\ (Called("add") /\ last'.err = NoError) =>
              \E b \in last'.book :
                 /\ b.isBorrowed = FALSE
                 /\ ~HasId(books, b.id)
        /\ \A i, j \in 1 .. Len(books') :
              i # j => books'[i].id # books'[j].id ]_vars

\* C2: in every reachable state every book has its borrowerId iff it has its
\* dueDate iff isBorrowed is true.
C2_BorrowFieldsAgree ==
    \A i \in 1 .. Len(books) :
       /\ (books[i].borrowerId # {}) <=> (books[i].dueDate # {})
       /\ (books[i].dueDate # {}) <=> (books[i].isBorrowed = TRUE)

\* An update that tried to clear isBorrowed on a borrowed book has run, and
\* the book still has all three borrowing fields.
C2_Witness ==
    /\ last.op = "update" /\ last.err = NoError
    /\ \E p \in last.arg : p.isBorrowed = {FALSE}
    /\ \E i \in 1 .. Len(books) :
          /\ last.id = {books[i].id}
          /\ books[i].isBorrowed /\ books[i].borrowerId # {} /\ books[i].dueDate # {}

\* C3: update(id, patch) of an existing id leaves the id, isBorrowed,
\* borrowerId and dueDate of that book as they were, whatever the patch
\* supplies for them, leaves every other book unchanged, and merges exactly
\* the supplied title, author and genre; the updated record is returned.
C3_UpdateKeepsProtected ==
    [][ Called("update") =>
          LET id == Val(last'.id)
              p == Val(last'.arg)
              i == FindIndex(books, id)
          IN  IF ~HasId(books, id)
              THEN Threw(NotFound)
              ELSE /\ last'.err = NoError
                   /\ Len(books') = Len(books)
                   /\ \A j \in 1 .. Len(books) : j # i => books'[j] = books[j]
                   /\ books'[i].id = books[i].id
                   /\ books'[i].isBorrowed = books[i].isBorrowed
                   /\ books'[i].borrowerId = books[i].borrowerId
                   /\ books'[i].dueDate = books[i].dueDate
                   /\ books'[i].title = (IF p.title = {} THEN books[i].title
                                         ELSE Val(p.title))
                   /\ books'[i].author = (IF p.author = {} THEN books[i].author
                                          ELSE Val(p.author))
                   /\ books'[i].genre = (IF p.genre = {} THEN books[i].genre
                                         ELSE Val(p.genre))
                   /\ last'.book = {books'[i]} ]_vars

\* An update of a borrowed book that supplied an id, isBorrowed, borrowerId,
\* dueDate and a title has run: the title is merged, the rest is as it was.
C3_Witness ==
    /\ last.op = "update" /\ last.err = NoError
    /\ \E p \in last.arg :
          /\ p.id = {9} /\ p.isBorrowed = {TRUE} /\ p.borrowerId = {"user789"}
          /\ p.dueDate # {} /\ p.title = {"New Title"}
    /\ \E i \in 1 .. Len(books) :
          /\ last.id = {books[i].id}
          /\ books[i].title = "New Title"
          /\ books[i].isBorrowed /\ books[i].borrowerId = {"user456"}

\* C4: return(id, borrowerId) fails with NotFound when no book has the id,
\* with NotBorrowed when the book is not borrowed, with WrongBorrower when
\* the recorded borrowerId differs from the argument, each time leaving the
\* catalog unchanged; it succeeds only for the recorded borrower of a
\* borrowed book.
C4_ReturnChecks ==
    [][ Called("return") =>
          LET id == Val(last'.id)
              who == Val(last'.who)
              i == FindIndex(books, id)
          IN  IF ~HasId(books, id) THEN Threw(NotFound)
              ELSE IF ~books[i].isBorrowed THEN Threw(NotBorrowed)
              ELSE IF books[i].borrowerId # {who} THEN Threw(WrongBorrower)
              ELSE last'.err = NoError ]_vars

\* C5: borrow(id, borrowerId) of a borrowed book fails with AlreadyBorrowed
\* for every borrowerId and changes nothing; a borrowed record keeps its
\* borrowerId and dueDate in every step that is not a successful return or
\* delete of its id.
C5_BorrowedStaysBorrowed ==
    [][ /\ Called("borrow") =>
              LET id == Val(last'.id) IN
              (\E j \in 1 .. Len(books) : books[j].id = id /\ books[j].isBorrowed)
                 => Threw(AlreadyBorrowed)
        /\ \A i \in 1 .. Len(books) :
              books[i].isBorrowed =>
                 \/ /\ Called("return") /\ last'.err = NoError
                    /\ last'.id = {books[i].id}
                 \/ /\ Called("delete") /\ last'.deleted = {TRUE}
                    /\ last'.id = {books[i].id}
                 \/ \E j \in 1 .. Len(books') :
                       /\ books'[j].id = books[i].id
                       /\ books'[j].isBorrowed
                       /\ books'[j].borrowerId = books[i].borrowerId
                       /\ books'[j].dueDate = books[i].dueDate ]_vars

\* The current borrower tried to borrow the book again, after some time.
C5_Witness ==
    /\ last.op = "borrow" /\ last.err = AlreadyBorrowed
    /\ \E i \in 1 .. Len(books) :
          /\ last.id = {books[i].id}
          /\ books[i].isBorrowed
          /\ books[i].borrowerId = last.who
          /\ books[i].dueDate # {ToISOString(now + 14 * TicksPerDay)}

\* C6: a successful borrow(id, borrowerId) followed by return(id, borrowerId),
\* with any time passing in between, succeeds and leaves the catalog as it
\* was before the borrow: the book not borrowed, without borrowerId and
\* dueDate, everything else untouched.
C6_BorrowReturnRoundTrip ==
    [][ ( /\ last.op = "borrow" /\ last.err = NoError
          /\ Called("return")
          /\ last'.id = last.id /\ last'.who = last.who )
        => /\ last'.err = NoError
           /\ books' = prev
           /\ \A j \in 1 .. Len(books') :
                 books'[j].id = Val(last.id) =>
                    /\ books'[j].isBorrowed = FALSE
                    /\ books'[j].borrowerId = {}
                    /\ books'[j].dueDate = {}
           /\ \E b \in last'.book :
                 /\ b.id = Val(last.id) /\ b.isBorrowed = FALSE
                 /\ b.borrowerId = {} /\ b.dueDate = {} ]_vars

\* A book was borrowed, time passed, and its borrower returned it.
C6_Witness ==
    /\ last.op = "return" /\ last.err = NoError
    /\ books = SeedBooks
    /\ \E i \in 1 .. Len(prev) :
          /\ prev[i].isBorrowed
          /\ prev[i].borrowerId = last.who
          /\ prev[i].dueDate # {ToISOString(now + 14 * TicksPerDay)}

C8_PenaltyPerDayOverdue ==
    [][ (Called("return") /\ last'.err = NoError) =>
          LET i == FindIndex(books, Val(last'.id))
              late == now - GetTime(Val(books[i].dueDate))
          IN  (late > 0 /\ late % TicksPerDay = 0)
                 => last'.penalty = {2 * (late \div TicksPerDay)} ]_vars

\* C9: delete(id) returns false and changes nothing when no record has the
\* id; otherwise it returns true, no record of the catalog has the id
\* afterwards, and the other records keep their contents and order.
C9_DeleteRemovesId ==
    [][ Called("delete") =>
          LET id == Val(last'.id)
              Other(b) == b.id # id
          IN  IF ~HasId(books, id)
              THEN last'.deleted = {FALSE} /\ books' = books
              ELSE /\ last'.deleted = {TRUE}
                   /\ ~HasId(books', id)
                   /\ books' = SelectSeq(books, Other) ]_vars

\* With C9's delete on a catalog in which no other record has the id: the
\* first record with the id is removed, true is returned, and the rest keeps
\* its contents and order.
DeleteRemovesFirstMatch ==
    [][ Called("delete") =>
          LET id == Val(last'.id)
              i == FindIndex(books, id)
          IN  IF ~HasId(books, id)
              THEN last'.deleted = {FALSE} /\ books' = books
              ELSE /\ last'.deleted = {TRUE}
                   /\ books' = SubSeq(books, 1, i - 1) \o SubSeq(books, i + 1, Len(books))
                   /\ (\A j \in 1 .. Len(books) : j # i => books[j].id # id)
                         => ~HasId(books', id) ]_vars

\* C10: add with a missing or empty title, author or genre throws and leaves
\* the catalog unchanged; with all three given it appends one record, built
\* from them, and changes no other record.
C10_AddValidates ==
    [][ Called("add") =>
          LET d == Val(last'.arg) IN
          IF \E f \in {d.title, d.author, d.genre} : f = {} \/ f = {""}
          THEN Threw(MissingFields)
          ELSE /\ last'.err = NoError
               /\ Len(books') = Len(books) + 1
               /\ SubSeq(books', 1, Len(books)) = books
               /\ books'[Len(books')].title = Val(d.title)
               /\ books'[Len(books')].author = Val(d.author)
               /\ books'[Len(books')].genre = Val(d.genre)
               /\ books'[Len(books')].isBorrowed = FALSE
               /\ last'.book = {books'[Len(books')]} ]_vars

\* An add with title and author but no genre was refused, after an add that
\* went through.
C10_Witness ==
    /\ last.op = "add" /\ last.err = MissingFields
    /\ \E d \in last.arg : d.title = {"Dune"} /\ d.author # {} /\ d.genre = {}
    /\ Len(books) = Len(SeedBooks) + 1
    /\ books = prev

====
